---- MODULE Spec2Model ----
(***************************************************************************)
(* A model of packer_rs (src/src/main.rs): the Packer facade, the          *)
(* BuildOptions value and its derive_builder builder, the translation of   *)
(* options into the argument vector of `packer build`, and the execution   *)
(* of the child process with the translation of its outcome into a         *)
(* Result.                                                                 *)
(*                                                                         *)
(* Strings and paths are TLA+ strings; the bytes a child writes to its     *)
(* pipes are sequences of integers 0..255, and so is the String that       *)
(* String::from_utf8_lossy makes of them (its UTF-8 encoding).             *)
(* An Option<T> is a sequence: None is <<>>, Some(v) is <<v>>.             *)
(***************************************************************************)
EXTENDS Integers, Sequences, FiniteSets, TLC

VARIABLES
    platform,   \* cfg!(target_os): "windows" or "unix", fixed per build
    fs,         \* the files that exist: a set of <<directory, name>>
    cwd,        \* the calling process's current directory
    packer,     \* Option<Packer>: the facade the caller holds
    newResult,  \* what the last Packer::new returned: "none", "Ok", "NotFound"
    lastDir,    \* Option: the argument of the last with_working_dir call
    prevDir,    \* the facade's working_dir before that call
    builder,    \* BuildOptionsBuilder: every field an Option of its value
    options,    \* the BuildOptions value the caller holds
    pc,         \* position of the current call: "idle", "built", "spawned", "returned"
    op,         \* the public operation being executed
    input,      \* Option: the template or plugin name the operation was given
    cmd,        \* the std::process::Command under construction
    child,      \* the child process of the current call
    spawns,     \* spawn attempts made by the current call
    result      \* the Result the call returned

vars == <<platform, fs, cwd, packer, newResult, lastDir, prevDir, builder,
          options, pc, op, input, cmd, child, spawns, result>>

envVars == <<platform, fs, cwd>>
facadeVars == <<packer, newResult, lastDir, prevDir>>
optionVars == <<builder, options>>
callVars == <<pc, op, input, cmd, child, spawns, result>>

----------------------------------------------------------------------------
(* Bounds of the model *)

\* longest vars list handed to the builder or to build
MaxVars == 2
\* longest var_files list
MaxVarFiles == 2
\* most bytes a child writes to stdout and stderr together
MaxOut == 2

None == <<>>
Some(v) == <<v>>

Platforms == {"unix", "windows"}
Dirs == {"/a", "/b"}
ExeNames == {"./packer", "./packer.exe"}
Templates == {"t.pkr.hcl", "-var=x"}
Plugins == {"amazon"}
VarPairs == {<<"k", "v">>, <<"k", "w">>}
VarFilePaths == {"f.json", "g.json"}
ParallelCounts == {-3, 0, 16}

SeqsUpTo(S, n) == UNION {[1..k -> S] : k \in 0..n}

VarLists == SeqsUpTo(VarPairs, MaxVars)
VarFileLists == SeqsUpTo(VarFilePaths, MaxVarFiles)

----------------------------------------------------------------------------
(* BuildOptions, its Default impl and its derived builder *)

Fields == {"parallel_builds", "debug", "force", "timestamp_ui", "color",
           "vars", "var_files"}

OptionValues ==
    [parallel_builds : {None} \cup {Some(n) : n \in ParallelCounts},
     debug : BOOLEAN, force : BOOLEAN, timestamp_ui : BOOLEAN, color : BOOLEAN,
     vars : VarLists, var_files : VarFileLists]

\* impl Default for BuildOptions
DefaultBuildOptions ==
    [parallel_builds |-> None, debug |-> FALSE, force |-> FALSE,
     timestamp_ui |-> FALSE, color |-> TRUE, vars |-> <<>>, var_files |-> <<>>]

\* #[builder(default)] on a field: an unset field takes Default::default() of
\* the field's TYPE (Option: None, bool: false, Vec: empty)
TypeDefault(f) ==
    CASE f = "parallel_builds" -> None
      [] f \in {"debug", "force", "timestamp_ui", "color"} -> FALSE
      [] f \in {"vars", "var_files"} -> <<>>

\* BuildOptionsBuilder::default(): no field set
EmptyBuilder == [f \in Fields |-> None]

\* the values a setter of field f accepts
FieldValues(f) ==
    CASE f = "parallel_builds" -> {None, Some(16)}
      [] f \in {"debug", "force", "timestamp_ui", "color"} -> BOOLEAN
      [] f = "vars" -> {<<>>, <<(<<"k", "v">>)>>}
      [] f = "var_files" -> {<<>>, <<"f.json">>}

\* BuildOptionsBuilder::build(): every field is the set value or its default
BuilderValue(b) ==
    [f \in Fields |-> IF b[f] = None THEN TypeDefault(f) ELSE b[f][1]]

\* a generated setter: builder.<f>(v)
BuilderSet(f, v) ==
    /\ builder' = [builder EXCEPT ![f] = Some(v)]
    /\ UNCHANGED <<options, envVars, facadeVars, callVars>>

\* builder.build().unwrap(): the builder is left as it was
BuilderBuild ==
    /\ options' = BuilderValue(builder)
    /\ UNCHANGED <<builder, envVars, facadeVars, callVars>>

\* BuildOptionsBuilder::default()
BuilderNew ==
    /\ builder # EmptyBuilder
    /\ builder' = EmptyBuilder
    /\ UNCHANGED <<options, envVars, facadeVars, callVars>>

\* BuildOptions::default()
OptionsDefault ==
    /\ options # DefaultBuildOptions
    /\ options' = DefaultBuildOptions
    /\ UNCHANGED <<builder, envVars, facadeVars, callVars>>

----------------------------------------------------------------------------
(* The facade, commands and the call frame *)

NoCmd == [program |-> "", args |-> <<>>, current_dir |-> None]
NoChild == [state |-> "none", program |-> "", args |-> <<>>, cwd |-> "",
            piped |-> FALSE, status |-> [kind |-> "none", n |-> 0],
            stdout |-> <<>>, stderr |-> <<>>]
NoResult == [kind |-> "none"]

IdleCall ==
    /\ pc = "idle" /\ op = "none" /\ input = None /\ cmd = NoCmd
    /\ child = NoChild
    /\ spawns = 0 /\ result = NoResult

----------------------------------------------------------------------------
(* Text *)

StartsWith(s, prefix) ==
    /\ Len(s) >= Len(prefix)
    /\ SubSeq(s, 1, Len(prefix)) = prefix

Digit(d) == SubSeq("0123456789", d + 1, d + 1)

RECURSIVE NatToString(_)
NatToString(n) ==
    IF n < 10 THEN Digit(n) ELSE NatToString(n \div 10) \o Digit(n % 10)

\* i32::to_string: decimal, a leading '-' for a negative number
I32ToString(n) == IF n < 0 THEN "-" \o NatToString(0 - n) ELSE NatToString(n)

\* Path::display() of a path that is valid Unicode, as every path here is:
\* the path's own text
PathDisplay(p) == p

\* format!("-var={}={}", key, value)
FormatVar(kv) == "-var=" \o kv[1] \o "=" \o kv[2]

\* format!("-var-file={}", var_file.display())
FormatVarFile(p) == "-var-file=" \o PathDisplay(p)

----------------------------------------------------------------------------
(* Commands *)

\* base_command that forgets the working directory
base_command_no_dir(p) ==
    [program |-> p.executable, args |-> <<>>, current_dir |-> None]

\* Packer::base_command
base_command(p) ==
    [program |-> p.executable, args |-> <<>>, current_dir |-> p.working_dir]

\* Command::arg
arg(c, a) == [c EXCEPT !.args = Append(@, a)]

\* Command::args
args(c, as) == [c EXCEPT !.args = @ \o as]

\* ParallelArgs with flag and count joined into one token
ParallelArgsJoined(n) == <<"-parallel-builds=" \o I32ToString(n)>>

\* the tokens build adds for Some(parallel)
ParallelArgs(n) == <<"-parallel-builds", I32ToString(n)>>

\* ArgVars keeping only the last entry of each key
RECURSIVE ArgVarsLastWins(_, _)
ArgVarsLastWins(c, vs) ==
    IF vs = <<>> THEN c
    ELSE IF \E i \in 2..Len(vs) : vs[i][1] = vs[1][1]
         THEN ArgVarsLastWins(c, Tail(vs))
         ELSE ArgVarsLastWins(
                  [c EXCEPT !.args = Append(@, "-var=" \o vs[1][1] \o "=" \o vs[1][2])],
                  Tail(vs))

\* for (key, value) in &options.vars { cmd.arg(format!(..)) }
RECURSIVE ArgVars(_, _)
ArgVars(c, vs) ==
    IF vs = <<>> THEN c ELSE ArgVars(arg(c, FormatVar(Head(vs))), Tail(vs))

\* for var_file in &options.var_files { cmd.arg(format!(..)) }
RECURSIVE ArgVarFiles(_, _)
ArgVarFiles(c, fsq) ==
    IF fsq = <<>> THEN c
    ELSE ArgVarFiles(arg(c, FormatVarFile(Head(fsq))), Tail(fsq))

\* BuildCommand testing force before debug
BuildCommandForceFirst(p, template, o) ==
    LET c0 == arg(base_command(p), "build")
        c1 == IF o.force THEN arg(c0, "-force") ELSE c0
        c2 == IF o.debug THEN arg(c1, "-debug") ELSE c1
        c3 == IF o.parallel_builds # None
              THEN args(c2, ParallelArgs(o.parallel_builds[1])) ELSE c2
        c4 == IF ~o.color THEN arg(c3, "-color=false") ELSE c3
        c5 == IF o.timestamp_ui THEN arg(c4, "-timestamp-ui") ELSE c4
        c6 == ArgVars(c5, o.vars)
        c7 == ArgVarFiles(c6, o.var_files)
    IN  arg(c7, template)

\* the Command that Packer::build hands to execute_command
BuildCommand(p, template, o) ==
    LET c0 == arg(base_command(p), "build")
        c1 == IF o.debug THEN arg(c0, "-debug") ELSE c0
        c2 == IF o.force THEN arg(c1, "-force") ELSE c1
        c3 == IF o.parallel_builds # None
              THEN args(c2, ParallelArgs(o.parallel_builds[1])) ELSE c2
        c4 == IF ~o.color THEN arg(c3, "-color=false") ELSE c3
        c5 == IF o.timestamp_ui THEN arg(c4, "-timestamp-ui") ELSE c4
        c6 == ArgVars(c5, o.vars)
        c7 == ArgVarFiles(c6, o.var_files)
    IN  arg(c7, template)

StatusOps == {"build", "init", "validate", "console", "plugin_install",
              "plugin_remove"}
OutputOps == {"inspect", "fix", "version", "plugin_list", "hcl2_upgrade"}

\* a public operation has built its Command and is about to run it
Call(o, a, c) ==
    /\ pc \in {"idle", "returned"}
    /\ packer # None
    /\ op' = o
    /\ input' = a
    /\ cmd' = c
    /\ pc' = "built"
    /\ child' = NoChild
    /\ spawns' = 0
    /\ result' = NoResult
    /\ UNCHANGED <<envVars, facadeVars, optionVars>>

build(template) == Call("build", Some(template), BuildCommand(packer[1], template, options))

init(template) ==
    Call("init", Some(template), arg(arg(base_command(packer[1]), "init"), template))

validate(template) ==
    Call("validate", Some(template), arg(arg(base_command(packer[1]), "validate"), template))

inspect(template) ==
    Call("inspect", Some(template), arg(arg(base_command(packer[1]), "inspect"), template))

fix(template) ==
    Call("fix", Some(template), arg(arg(base_command(packer[1]), "fix"), template))

version == Call("version", None, arg(base_command(packer[1]), "version"))

plugin_install(plugin_name) ==
    Call("plugin_install", Some(plugin_name),
         args(base_command(packer[1]), <<"plugin", "install", plugin_name>>))

plugin_remove(plugin_name) ==
    Call("plugin_remove", Some(plugin_name),
         args(base_command(packer[1]), <<"plugin", "remove", plugin_name>>))

plugin_list ==
    Call("plugin_list", None, args(base_command(packer[1]), <<"plugin", "list">>))

console(template) ==
    Call("console", Some(template), arg(arg(base_command(packer[1]), "console"), template))

hcl2_upgrade(template) ==
    Call("hcl2_upgrade", Some(template),
         arg(arg(base_command(packer[1]), "hcl2_upgrade"), template))

----------------------------------------------------------------------------
(* Running the child *)

\* what a child can do when it terminates: exit with a code or, on unix, die
\* of a signal
Statuses ==
    {[kind |-> "exit", n |-> 0], [kind |-> "exit", n |-> 1]}
        \cup (IF platform = "unix" THEN {[kind |-> "signal", n |-> 9]} ELSE {})

\* ExitStatus::success
success(st) == st.kind = "exit" /\ st.n = 0

\* impl Display for ExitStatus
StatusDisplay(st) ==
    IF platform = "windows" THEN "exit code: " \o I32ToString(st.n)
    ELSE IF st.kind = "exit" THEN "exit status: " \o I32ToString(st.n)
    ELSE "signal: " \o I32ToString(st.n)

\* the bytes a child may write
Bytes == {65, 195, 169}
ByteSeqs == SeqsUpTo(Bytes, MaxOut)
Outputs == {oe \in ByteSeqs \X ByteSeqs : Len(oe[1]) + Len(oe[2]) <= MaxOut}

\* cmd.status() / cmd.output(): the attempt to start the child.  The child
\* runs cmd.program with cmd.args in cmd.current_dir, or in the caller's
\* directory when none is set; output() pipes its stdout and stderr.
Spawn ==
    /\ pc = "built"
    /\ pc' = "spawned"
    /\ spawns' = spawns + 1
    /\ \/ child' = [NoChild EXCEPT !.state = "spawn_failed"]
       \/ child' = [NoChild EXCEPT
                      !.state = "running",
                      !.program = cmd.program,
                      !.args = cmd.args,
                      !.cwd = IF cmd.current_dir = None THEN cwd
                              ELSE cmd.current_dir[1],
                      !.piped = op \in OutputOps]
    /\ UNCHANGED <<op, input, cmd, result, envVars, facadeVars, optionVars>>

\* the child terminates; what it wrote is captured only through pipes
ChildExit ==
    /\ pc = "spawned"
    /\ child.state = "running"
    /\ \E st \in Statuses : \E oe \in Outputs :
          /\ ~child.piped => oe = <<(<<>>), (<<>>)>>
          /\ child' = [child EXCEPT !.state = "exited", !.status = st,
                                    !.stdout = oe[1], !.stderr = oe[2]]
    /\ UNCHANGED <<pc, op, input, cmd, spawns, result, envVars, facadeVars, optionVars>>

\* U+FFFD REPLACEMENT CHARACTER in UTF-8
REPLACEMENT == <<239, 191, 189>>

IsContinuation(b, i) == i <= Len(b) /\ b[i] \in 128..191

\* the second byte a three- or four-byte lead admits
SecondOk(lead, x) ==
    CASE lead = 224 -> x \in 160..191
      [] lead \in 225..236 -> x \in 128..191
      [] lead = 237 -> x \in 128..159
      [] lead \in 238..239 -> x \in 128..191
      [] lead = 240 -> x \in 144..191
      [] lead \in 241..243 -> x \in 128..191
      [] lead = 244 -> x \in 128..143
      [] OTHER -> FALSE

\* utf8_char_width
Utf8Width(x) ==
    IF x < 128 THEN 1
    ELSE IF x \in 194..223 THEN 2
    ELSE IF x \in 224..239 THEN 3
    ELSE IF x \in 240..244 THEN 4
    ELSE 0

\* the first chunk of b: a valid character, or the longest invalid prefix
\* that one U+FFFD replaces
FirstChunk(b) ==
    LET w == Utf8Width(b[1]) IN
    IF w = 1 THEN [valid |-> TRUE, len |-> 1]
    ELSE IF w = 2 THEN
        IF IsContinuation(b, 2) THEN [valid |-> TRUE, len |-> 2]
        ELSE [valid |-> FALSE, len |-> 1]
    ELSE IF w = 3 THEN
        IF ~(Len(b) >= 2 /\ SecondOk(b[1], b[2])) THEN [valid |-> FALSE, len |-> 1]
        ELSE IF ~IsContinuation(b, 3) THEN [valid |-> FALSE, len |-> 2]
        ELSE [valid |-> TRUE, len |-> 3]
    ELSE IF w = 4 THEN
        IF ~(Len(b) >= 2 /\ SecondOk(b[1], b[2])) THEN [valid |-> FALSE, len |-> 1]
        ELSE IF ~IsContinuation(b, 3) THEN [valid |-> FALSE, len |-> 2]
        ELSE IF ~IsContinuation(b, 4) THEN [valid |-> FALSE, len |-> 3]
        ELSE [valid |-> TRUE, len |-> 4]
    ELSE [valid |-> FALSE, len |-> 1]

\* String::from_utf8_lossy(bytes).to_string(), as the String's UTF-8 bytes
RECURSIVE from_utf8_lossy(_)
from_utf8_lossy(b) ==
    IF b = <<>> THEN <<>>
    ELSE LET c == FirstChunk(b) IN
         (IF c.valid THEN SubSeq(b, 1, c.len) ELSE REPLACEMENT)
             \o from_utf8_lossy(SubSeq(b, c.len + 1, Len(b)))

\* StatusResult that never looks at the exit status
StatusResultUnchecked(ch) ==
    IF ch.state = "spawn_failed" THEN [kind |-> "IoError"] ELSE [kind |-> "Ok"]

\* Packer::execute_command on the outcome of cmd.status()
StatusResult(ch) ==
    IF ch.state = "spawn_failed" THEN [kind |-> "IoError"]
    ELSE IF ~success(ch.status) THEN
        [kind |-> "ExecutionError",
         message |-> "Command failed with exit code: " \o StatusDisplay(ch.status)]
    ELSE [kind |-> "Ok"]

\* OutputResult whose error message is taken from stdout
OutputResultStdoutInError(ch) ==
    IF ch.state = "spawn_failed" THEN [kind |-> "IoError"]
    ELSE IF ~(ch.status.kind = "exit" /\ ch.status.n = 0) THEN
        [kind |-> "ExecutionError", message |-> from_utf8_lossy(ch.stdout)]
    ELSE [kind |-> "Ok", value |-> from_utf8_lossy(ch.stdout)]

\* inspect, fix, version, plugin_list, hcl2_upgrade on the outcome of
\* cmd.output()
OutputResult(ch) ==
    IF ch.state = "spawn_failed" THEN [kind |-> "IoError"]
    ELSE IF ~success(ch.status) THEN
        [kind |-> "ExecutionError", message |-> from_utf8_lossy(ch.stderr)]
    ELSE [kind |-> "Ok", value |-> from_utf8_lossy(ch.stdout)]

\* execute_command that runs the command once more when it failed
execute_command_retry ==
    /\ pc = "spawned"
    /\ op \in StatusOps
    /\ child.state \in {"spawn_failed", "exited"}
    /\ IF StatusResult(child).kind # "Ok" /\ spawns < 2
       THEN /\ pc' = "built"
            /\ child' = NoChild
            /\ UNCHANGED result
       ELSE /\ result' = StatusResult(child)
            /\ pc' = "returned"
            /\ UNCHANGED child
    /\ UNCHANGED <<op, input, cmd, spawns, envVars, facadeVars, optionVars>>

\* execute_command returns: the spawn failed or the child has terminated
execute_command ==
    /\ pc = "spawned"
    /\ op \in StatusOps
    /\ child.state \in {"spawn_failed", "exited"}
    /\ result' = StatusResult(child)
    /\ pc' = "returned"
    /\ UNCHANGED <<op, input, cmd, child, spawns, envVars, facadeVars, optionVars>>

\* an output-capturing operation returns
ReturnOutput ==
    /\ pc = "spawned"
    /\ op \in OutputOps
    /\ child.state \in {"spawn_failed", "exited"}
    /\ result' = OutputResult(child)
    /\ pc' = "returned"
    /\ UNCHANGED <<op, input, cmd, child, spawns, envVars, facadeVars, optionVars>>

----------------------------------------------------------------------------
(* The facade *)

\* the frame of a returned call is dropped when the caller moves on
DropCall ==
    /\ pc' = "idle" /\ op' = "none" /\ input' = None /\ cmd' = NoCmd
    /\ child' = NoChild
    /\ spawns' = 0 /\ result' = NoResult

\* DefaultExecutable without the cfg! test
DefaultExecutableUnixOnly == "./packer"

\* the executable Packer::new looks for
DefaultExecutable == IF platform = "windows" THEN "./packer.exe" ELSE "./packer"

\* Path::exists of a relative path: resolved against the current directory
exists(path) == <<cwd, path>> \in fs

\* Packer::new
new ==
    /\ pc \in {"idle", "returned"}
    /\ LET executable == DefaultExecutable IN
       IF ~exists(executable)
       THEN /\ newResult' = "NotFound"
            /\ packer' = None
       ELSE /\ newResult' = "Ok"
            /\ packer' = Some([executable |-> executable, working_dir |-> None])
    /\ lastDir' = None
    /\ prevDir' = None
    /\ DropCall
    /\ UNCHANGED <<envVars, optionVars>>

\* with_working_dir that keeps an override already set
with_working_dir_keep(dir) ==
    /\ pc \in {"idle", "returned"}
    /\ packer # None
    /\ packer' = IF packer[1].working_dir = None
                 THEN Some([packer[1] EXCEPT !.working_dir = Some(dir)])
                 ELSE packer
    /\ lastDir' = Some(dir)
    /\ prevDir' = packer[1].working_dir
    /\ pc' = "idle" /\ op' = "none" /\ input' = None /\ cmd' = NoCmd
    /\ child' = NoChild /\ spawns' = 0 /\ result' = [kind |-> "none"]
    /\ UNCHANGED <<newResult, envVars, optionVars>>

\* Packer::with_working_dir
with_working_dir(dir) ==
    /\ pc \in {"idle", "returned"}
    /\ packer # None
    /\ packer' = Some([packer[1] EXCEPT !.working_dir = Some(dir)])
    /\ lastDir' = Some(dir)
    /\ prevDir' = packer[1].working_dir
    /\ DropCall
    /\ UNCHANGED <<newResult, envVars, optionVars>>

\* std::env::set_current_dir, by the caller
set_current_dir(dir) ==
    /\ pc \in {"idle", "returned"}
    /\ dir # cwd
    /\ cwd' = dir
    /\ DropCall
    /\ UNCHANGED <<platform, fs, facadeVars, optionVars>>

----------------------------------------------------------------------------
(* Specifications *)

InitOptions ==
    /\ platform = "unix" /\ fs = {} /\ cwd = "/a"
    /\ packer = None /\ newResult = "none" /\ lastDir = None /\ prevDir = None
    /\ builder = EmptyBuilder
    /\ options = DefaultBuildOptions
    /\ IdleCall

NextOptions ==
    \/ \E f \in Fields : \E v \in FieldValues(f) : BuilderSet(f, v)
    \/ BuilderBuild
    \/ BuilderNew
    \/ OptionsDefault

SpecOptions == InitOptions /\ [][NextOptions]_vars

\* the facade alone: construction, overrides and the caller's directory
InitFacade ==
    /\ platform \in Platforms
    /\ fs \in SUBSET (Dirs \X ExeNames)
    /\ cwd \in Dirs
    /\ packer = None /\ newResult = "none" /\ lastDir = None /\ prevDir = None
    /\ builder = EmptyBuilder
    /\ options = DefaultBuildOptions
    /\ IdleCall

NextFacade ==
    \/ new
    \/ \E dir \in Dirs : with_working_dir(dir)
    \/ \E dir \in Dirs : set_current_dir(dir)

SpecFacade == InitFacade /\ [][NextFacade]_vars

\* a facade whose construction succeeded
ConstructedFacade ==
    /\ fs = Dirs \X ExeNames
    /\ packer = Some([executable |-> DefaultExecutable, working_dir |-> None])
    /\ newResult = "Ok" /\ lastDir = None /\ prevDir = None

\* build over every options value
InitBuild ==
    /\ platform = "unix"
    /\ cwd = "/a"
    /\ ConstructedFacade
    /\ builder = EmptyBuilder
    /\ options \in OptionValues
    /\ IdleCall

NextBuild ==
    \/ \E template \in Templates : build(template)
    \/ Spawn
    \/ ChildExit
    \/ execute_command

SpecBuild == InitBuild /\ [][NextBuild]_vars

\* every operation of a constructed facade
InitExec ==
    /\ platform \in Platforms
    /\ cwd \in Dirs
    /\ ConstructedFacade
    /\ builder = EmptyBuilder
    /\ options = DefaultBuildOptions
    /\ IdleCall

Operation ==
    \/ \E template \in Templates : build(template)
    \/ \E template \in Templates : init(template)
    \/ \E template \in Templates : validate(template)
    \/ \E template \in Templates : inspect(template)
    \/ \E template \in Templates : fix(template)
    \/ version
    \/ \E plugin_name \in Plugins : plugin_install(plugin_name)
    \/ \E plugin_name \in Plugins : plugin_remove(plugin_name)
    \/ plugin_list
    \/ \E template \in Templates : console(template)
    \/ \E template \in Templates : hcl2_upgrade(template)

NextExec ==
    \/ Operation
    \/ \E dir \in Dirs : with_working_dir(dir)
    \/ \E dir \in Dirs : set_current_dir(dir)
    \/ Spawn
    \/ ChildExit
    \/ execute_command
    \/ ReturnOutput

SpecExec == InitExec /\ [][NextExec]_vars

\* the caller's thread runs: a built command is spawned, and a call whose
\* child is gone returns.  Nothing makes a child terminate.
FairSpecExec ==
    /\ SpecExec
    /\ WF_vars(Spawn)
    /\ WF_vars(execute_command)
    /\ WF_vars(ReturnOutput)

----------------------------------------------------------------------------
(* Claims *)

\* C1: an options value built by the builder has, in every field that was
\* not set on the builder, the default that impl Default for BuildOptions
\* documents (debug, force, timestamp_ui false, color true, no parallel
\* count, empty vars and var_files); with no field set it equals
\* BuildOptions::default().
C1_BuilderFillsDefaults ==
    [][BuilderBuild =>
          /\ \A f \in Fields :
                builder[f] = None => options'[f] = DefaultBuildOptions[f]
          /\ builder = EmptyBuilder => options' = DefaultBuildOptions]_vars

\* a token when the flag is set, nothing otherwise
Flag(b, token) == IF b THEN <<token>> ELSE <<>>

\* the ways a parallel count may be rendered as a flag
ParallelForms(pb) ==
    IF pb = None THEN {<<>>}
    ELSE {<<"-parallel-builds=" \o ToString(pb[1])>>,
          <<"-parallel-builds", ToString(pb[1])>>}

\* the argument vectors C2 admits for options o and a template
ExpectedBuildArgs(o, template) ==
    {<<"build">> \o Flag(o.debug, "-debug") \o Flag(o.force, "-force") \o P
        \o Flag(~o.color, "-color=false") \o Flag(o.timestamp_ui, "-timestamp-ui")
        \o [i \in 1..Len(o.vars) |-> "-var=" \o o.vars[i][1] \o "=" \o o.vars[i][2]]
        \o [i \in 1..Len(o.var_files) |-> "-var-file=" \o o.var_files[i]]
        \o <<template>> : P \in ParallelForms(o.parallel_builds)}

\* C2: the argument vector of build is, in this order: `build`, `-debug` iff
\* debug, `-force` iff force, the parallel-builds flag iff a count is
\* present, `-color=false` iff not color, `-timestamp-ui` iff timestamp_ui,
\* the -var= tokens in list order, the -var-file= tokens in list order, the
\* template last, and nothing else; the child is started with exactly it.
C2_BuildArgsOrder ==
    op = "build" =>
        /\ cmd.args \in ExpectedBuildArgs(options, input[1])
        /\ child.state \in {"running", "exited"} => child.args = cmd.args

C2_Witness ==
    /\ op = "build" /\ child.state = "running"
    /\ options.debug /\ ~options.force /\ options.parallel_builds # None
    /\ ~options.color /\ options.timestamp_ui
    /\ Len(options.vars) = 2 /\ Len(options.var_files) = 2
    /\ options.var_files[1] # options.var_files[2]

\* the tokens of build's argument vector before the template
OptionTokens == SubSeq(cmd.args, 1, Len(cmd.args) - 1)

\* the positions of the tokens of sq that start with prefix
PositionsOf(sq, prefix) == {i \in 1..Len(sq) : StartsWith(sq[i], prefix)}

\* C3 as stated: a parallel count n adds exactly one token,
\* `-parallel-builds=<n>`, and no count adds no parallel-builds token.
C3_SingleToken ==
    op = "build" =>
        LET at == PositionsOf(OptionTokens, "-parallel-builds") IN
        IF options.parallel_builds = None THEN at = {}
        ELSE /\ Cardinality(at) = 1
             /\ \A i \in at :
                   OptionTokens[i] =
                       "-parallel-builds=" \o ToString(options.parallel_builds[1])

\* the number of tokens build adds for the boolean flags
BoolTokens(o) ==
    Len(Flag(o.debug, 1) \o Flag(o.force, 1) \o Flag(~o.color, 1)
        \o Flag(o.timestamp_ui, 1))

\* C3 amended: a parallel count n adds exactly two consecutive tokens, the
\* flag name `-parallel-builds` and then the decimal number n; no count adds
\* no parallel-builds token.
C3_TwoTokens ==
    op = "build" =>
        LET at == PositionsOf(OptionTokens, "-parallel-builds") IN
        IF options.parallel_builds = None
        THEN /\ at = {}
             /\ Len(OptionTokens) = 1 + BoolTokens(options) + Len(options.vars)
                                      + Len(options.var_files)
        ELSE /\ Cardinality(at) = 1
             /\ \A i \in at :
                   /\ OptionTokens[i] = "-parallel-builds"
                   /\ i < Len(OptionTokens)
                   /\ OptionTokens[i + 1] = ToString(options.parallel_builds[1])
             /\ Len(OptionTokens) = 3 + BoolTokens(options) + Len(options.vars)
                                      + Len(options.var_files)

C3_Witness ==
    /\ op = "build" /\ child.state = "running"
    /\ options.parallel_builds = Some(-3)
    /\ options.force

IsVarToken(t) == StartsWith(t, "-var=")

\* the -var= tokens the vars list asks for
ExpectedVarTokens(vs) ==
    [i \in 1..Len(vs) |-> "-var=" \o vs[i][1] \o "=" \o vs[i][2]]

\* C4 as stated: the argument vector holds exactly N tokens starting with
\* `-var=`, the i-th of them `-var=<key_i>=<value_i>`.
C4_VarTokensInArgv ==
    op = "build" => SelectSeq(cmd.args, IsVarToken) = ExpectedVarTokens(options.vars)

\* C4 amended: among the tokens before the final template argument there
\* are exactly N starting with `-var=`, the i-th of them
\* `-var=<key_i>=<value_i>`; nothing is dropped, merged or reordered.
C4_VarTokensBeforeTemplate ==
    op = "build" =>
        SelectSeq(OptionTokens, IsVarToken) = ExpectedVarTokens(options.vars)

C4_Witness ==
    /\ op = "build" /\ child.state = "running"
    /\ Len(options.vars) = 2
    /\ options.vars[1][1] = options.vars[2][1]
    /\ options.vars[1][2] # options.vars[2][2]
    /\ input = Some("-var=x")

\* C5: Packer::new returns NotFound whenever no file exists at the
\* platform's default path (./packer.exe on windows, ./packer elsewhere) in
\* the caller's directory, and otherwise a facade holding that path with no
\* working-directory override; it starts no process and changes neither the
\* files nor the caller's directory.
C5_NewChecksExistence ==
    [][new =>
          LET path == IF platform = "windows" THEN "./packer.exe" ELSE "./packer" IN
          /\ IF <<cwd, path>> \notin fs
             THEN newResult' = "NotFound" /\ packer' = None
             ELSE /\ newResult' = "Ok"
                  /\ packer' = Some([executable |-> path, working_dir |-> None])
          /\ child' = NoChild /\ spawns' = 0
          /\ UNCHANGED <<platform, fs, cwd>>]_vars

C5_Witness ==
    /\ newResult = "NotFound" /\ packer = None
    /\ platform = "windows"
    /\ <<cwd, "./packer">> \in fs /\ <<cwd, "./packer.exe">> \notin fs

\* C6: with_working_dir changes only the facade's working directory: the
\* executable is the one construction stored, and after any number of calls
\* the working directory is the argument of the last call.
C6_OverrideReplaces ==
    /\ [](lastDir # None => packer # None /\ packer[1].working_dir = lastDir)
    /\ [](packer # None =>
             packer[1].executable
                 = IF platform = "windows" THEN "./packer.exe" ELSE "./packer")
    /\ [][\A dir \in Dirs :
             with_working_dir(dir) =>
                 /\ packer'[1].working_dir = Some(dir)
                 /\ packer'[1].executable = packer[1].executable
                 /\ UNCHANGED <<newResult, platform, fs, cwd, builder, options>>]_vars

C6_Witness ==
    /\ packer # None
    /\ prevDir = Some("/a")
    /\ lastDir = Some("/b")
    /\ packer[1].working_dir = Some("/b")

\* C7: every child an operation starts runs in the facade's working
\* directory when one is set and in the caller's directory when none is,
\* and no step of an operation changes the caller's own directory.
C7_ChildDirectory ==
    /\ [](child.state \in {"running", "exited"} =>
             child.cwd = IF packer[1].working_dir # None
                         THEN packer[1].working_dir[1] ELSE cwd)
    /\ [][pc' \in {"built", "spawned", "returned"} => cwd' = cwd]_vars

C7_Witness ==
    /\ child.state = "exited"
    /\ op = "version"
    /\ packer[1].working_dir = Some("/b")
    /\ child.cwd = "/b"
    /\ cwd = "/a"

\* whether text ends with suffix
EndsWith(text, suffix) ==
    /\ Len(text) >= Len(suffix)
    /\ SubSeq(text, Len(text) - Len(suffix) + 1, Len(text)) = suffix

\* C8: a status-only operation returns IoError when the spawn failed,
\* ExecutionError with the message "Command failed with exit code: ..."
\* naming the code when the child exited non-zero, and success when the
\* child exited with success; it always returns one of the three.
C8_StatusOnlyResult ==
    pc = "returned" /\ op \in StatusOps =>
        /\ result.kind \in {"Ok", "ExecutionError", "IoError"}
        /\ child.state = "spawn_failed" <=> result.kind = "IoError"
        /\ child.state = "exited" /\ child.status.kind = "exit" /\ child.status.n # 0
              => /\ result.kind = "ExecutionError"
                 /\ StartsWith(result.message, "Command failed with exit code: ")
                 /\ EndsWith(result.message, ToString(child.status.n))
        /\ child.state = "exited" /\ child.status.kind = "exit" /\ child.status.n = 0
              <=> result.kind = "Ok"

C8_Witness ==
    /\ pc = "returned" /\ op = "init"
    /\ child.state = "exited" /\ child.status = [kind |-> "exit", n |-> 1]
    /\ result.kind = "ExecutionError"

ExitedWith(zero) ==
    /\ child.state = "exited"
    /\ child.status.kind = "exit"
    /\ (child.status.n = 0) = zero

\* C9 as stated: an output-capturing operation returns the child's stdout
\* unmodified on success, ExecutionError carrying the child's stderr on a
\* non-zero exit, IoError when the spawn failed.
C9_OutputUnmodified ==
    pc = "returned" /\ op \in OutputOps =>
        /\ ExitedWith(TRUE) => result.kind = "Ok" /\ result.value = child.stdout
        /\ ExitedWith(FALSE) =>
              result.kind = "ExecutionError" /\ result.message = child.stderr
        /\ child.state = "spawn_failed" => result.kind = "IoError"

\* well-formed UTF-8
RECURSIVE IsUtf8(_)
IsUtf8(b) ==
    \/ b = <<>>
    \/ \E n \in 1..4 :
          /\ n <= Len(b)
          /\ \/ n = 1 /\ b[1] \in 0..127
             \/ n = 2 /\ b[1] \in 194..223
             \/ n = 3 /\ b[1] \in 224..239 /\ SecondOk(b[1], b[2])
             \/ n = 4 /\ b[1] \in 240..244 /\ SecondOk(b[1], b[2])
          /\ \A i \in 2..n : (i = 2 /\ n > 2) \/ b[i] \in 128..191
          /\ IsUtf8(SubSeq(b, n + 1, Len(b)))

\* text is bytes, its well-formed parts kept and every ill-formed part
\* replaced by U+FFFD
RECURSIVE IsLossyTextOf(_, _)
IsLossyTextOf(text, bytes) ==
    \/ text = <<>> /\ bytes = <<>>
    \/ \E n \in 1..Len(bytes) :
          /\ IsUtf8(SubSeq(bytes, 1, n))
          /\ Len(text) >= n /\ SubSeq(text, 1, n) = SubSeq(bytes, 1, n)
          /\ IsLossyTextOf(SubSeq(text, n + 1, Len(text)),
                           SubSeq(bytes, n + 1, Len(bytes)))
    \/ \E n \in 1..Len(bytes) :
          /\ \A i \in 1..n : \A j \in i..n : ~IsUtf8(SubSeq(bytes, i, j))
          /\ Len(text) >= 3 /\ SubSeq(text, 1, 3) = <<239, 191, 189>>
          /\ IsLossyTextOf(SubSeq(text, 4, Len(text)),
                           SubSeq(bytes, n + 1, Len(bytes)))

\* C9 amended: an output-capturing operation returns the child's stdout
\* decoded lossily on success (unmodified when it is well-formed UTF-8, its
\* ill-formed parts replaced by U+FFFD otherwise), ExecutionError carrying
\* the child's stderr decoded the same way, and not its stdout, on a
\* non-zero exit, and IoError when the spawn failed.
C9_OutputLossy ==
    pc = "returned" /\ op \in OutputOps =>
        /\ ExitedWith(TRUE) =>
              /\ result.kind = "Ok"
              /\ IsLossyTextOf(result.value, child.stdout)
              /\ IsUtf8(child.stdout) <=> result.value = child.stdout
        /\ ExitedWith(FALSE) =>
              /\ result.kind = "ExecutionError"
              /\ IsLossyTextOf(result.message, child.stderr)
              /\ IsUtf8(child.stderr) <=> result.message = child.stderr
        /\ child.state = "spawn_failed" => result.kind = "IoError"

C9_Witness ==
    /\ pc = "returned" /\ op = "version"
    /\ ExitedWith(TRUE)
    /\ child.stdout = <<195, 65>>
    /\ result.value = <<239, 191, 189, 65>>

\* C10: a call goes built -> spawned -> returned and no other way; it makes
\* one spawn attempt and never a second; it returns only when the spawn
\* failed or the child has terminated, with exactly one of Ok,
\* ExecutionError, IoError; the facade is the same throughout; and a call
\* whose child terminates (or could not be spawned) does return.
C10_OneSpawnThenResult ==
    /\ [](spawns <= 1)
    /\ [](pc \in {"idle", "built"} => spawns = 0 /\ child.state = "none")
    /\ [](pc # "returned" => result = NoResult)
    /\ [](pc = "returned" =>
             /\ spawns = 1
             /\ child.state \in {"spawn_failed", "exited"}
             /\ result.kind \in {"Ok", "ExecutionError", "IoError"}
             /\ result.kind = "IoError" <=> child.state = "spawn_failed")
    /\ [][pc' # pc =>
             <<pc, pc'>> \in {<<"idle", "built">>, <<"returned", "built">>,
                              <<"built", "spawned">>, <<"spawned", "returned">>,
                              <<"returned", "idle">>}]_vars
    /\ [][pc' \in {"built", "spawned", "returned"} => packer' = packer]_vars
    /\ (pc = "built" ~> pc = "spawned")
    /\ (pc = "spawned" /\ child.state \in {"spawn_failed", "exited"}
           ~> pc = "returned")

C10_Witness ==
    /\ pc = "returned" /\ op = "build"
    /\ spawns = 1
    /\ child.state = "exited"
    /\ result.kind = "ExecutionError"

====
